---- MODULE Spec2Model ----
(***************************************************************************)
(* Model of the Strava activity agent: the prompt parser with its regex    *)
(* fallback, the acceptance gate, name/description generation and the      *)
(* submission of the activity record (src/src/strava_activity_agent.py,    *)
(* src/src/writer_client.py, src/src/strava_client.py,                     *)
(* src/src/exercise_knowledge.py).                                         *)
(*                                                                         *)
(* Numbers: confidence is kept in hundredths (0.3 is 30), distance_km in   *)
(* thousandths of a km (1 km is 1000), a duration in whole minutes plus    *)
(* tenths (field f).  A JSON / Python value is a record [t, v, f] whose    *)
(* tag t is "absent" (key missing), "null", "str", "bool", "num" or "nan". *)
(***************************************************************************)
EXTENDS Integers, Sequences, FiniteSets, TLC

VARIABLES
    kbClient,        \* ExerciseKnowledgeBase.client is set (store reachable at start-up)
    tokens,          \* StravaAPIClient: [access, refresh, expires]
    pc,              \* position of the create_activity_from_prompt coroutine
    prompt,          \* its argument
    matches,         \* exercise_matches of parse_activity_prompt (top match, 0 = none)
    resp,            \* the response the parse completion call got
    parse_result,    \* what parse_activity_prompt returned
    via,             \* which return statement of parse_activity_prompt produced it
    fb_matches,      \* exercise_matches inside _fallback_parse_prompt
    store_ok,        \* the store answered get_exercise_suggestions during the parse
    name,            \* name handed to / produced for create_quick_activity_with_ai
    now,             \* datetime.now().timestamp() read by _ensure_valid_token
    calls,           \* external calls made by this invocation
    sent,            \* the record handed to StravaAPIClient.create_activity
    accepted,        \* the activity service answered the create request with success
    result,          \* what create_activity_from_prompt returned
    raised,          \* an exception escaped create_activity_from_prompt
    last_call,       \* the last operation of the StravaAPIClient and what it did
    user_sessions,   \* main.py: the session store, in insertion order
    requester,       \* the user whose prompt request started the invocation
    kb_call          \* the last operation of the ExerciseKnowledgeBase and what it returned

vars == <<kbClient, tokens, pc, prompt, matches, resp, parse_result, via,
          fb_matches, store_ok, name, now, calls, sent, accepted, result, raised,
          last_call, user_sessions, requester, kb_call>>

\* the state of the web application around the agent
sessionVars == <<user_sessions, requester>>

\* the variables of a workflow invocation, which a direct client operation leaves alone
workflowVars == <<kbClient, pc, prompt, matches, resp, parse_result, via, fb_matches,
                  store_ok, name, calls, sent, accepted, result, raised>>

----------------------------------------------------------------------------
(* Bounds of the model *)

MaxPromptLen == 2       \* tokens in a prompt of the workflow specification
MaxFallbackLen == 4     \* tokens in a prompt of the model-unavailable specification
MaxMatch == 2           \* the store's top match is one of the first MaxMatch catalog entries

(* Program constants *)

GateThreshold == 30        \* 0.3, the acceptance gate
FallbackConfidence == 30   \* 0.3, confidence of a fallback parse
DefaultConfidence == 50    \* 0.5, setdefault("confidence", 0.5)
MinutesPerHour == 60       \* duration *= 60
SecondsPerMinute == 60     \* elapsed_time = duration_minutes * 60
MetersPerMile == 1609      \* distance *= 1.609 (km, kept in thousandths)
MetersPerKm == 1000        \* distance = distance_km * 1000
RefreshBuffer == 300       \* current_time + 300 >= expires_at

----------------------------------------------------------------------------
(* Values *)

Val(t, v) == [t |-> t, v |-> v, f |-> 0]
Absent == Val("absent", 0)
Null == Val("null", 0)
Str == Val("str", 0)
NaN == Val("nan", 0)
Num(v) == Val("num", v)
Bool(b) == Val("bool", IF b THEN 1 ELSE 0)

\* a float with a fractional part: v whole units and f tenths
Frac(v, f) == [t |-> "num", v |-> v, f |-> f]

\* isinstance(x, (int, float)): bool is a subclass of int, NaN is a float
IsNumber(x) == x.t \in {"num", "bool", "nan"}

\* x <= 0 for a Python number; every comparison with NaN is False
LeqZero(x) == x.t # "nan" /\ (x.v < 0 \/ (x.v = 0 /\ x.f = 0))

\* x > 0
Positive(x) == IsNumber(x) /\ x.t # "nan" /\ (x.v > 0 \/ (x.v = 0 /\ x.f > 0))

\* bool(x): None, 0, 0.0, "" and False are falsy (a "str" value here is non-empty)
Truthy(x) == CASE x.t \in {"absent", "null"} -> FALSE
               [] x.t \in {"num", "bool"} -> x.v # 0 \/ x.f # 0
               [] OTHER -> TRUE

SportTypes == {"Run", "Ride", "Swim", "Hike", "Walk", "WeightTraining", "Yoga",
               "CrossCountrySkiing", "Rowing", "Elliptical"}

\* an equipment string with the words of equip.lower().split()
Eq(s, words) == [s |-> s, words |-> words]

\* _populate_initial_data: the catalog, in declaration order
Catalog == <<
    [name |-> "Running", sport_type |-> "Run", intensity_level |-> "variable",
     muscle_groups |-> "[legs, core, cardiovascular]",
     equipment |-> <<Eq("running shoes", {"running", "shoes"}), Eq("treadmill", {"treadmill"}),
                     Eq("track", {"track"})>>],
    [name |-> "Cycling", sport_type |-> "Ride", intensity_level |-> "variable",
     muscle_groups |-> "[legs, core, cardiovascular]",
     equipment |-> <<Eq("bicycle", {"bicycle"}), Eq("helmet", {"helmet"}),
                     Eq("cycling shoes", {"cycling", "shoes"}), Eq("spin bike", {"spin", "bike"})>>],
    [name |-> "Swimming", sport_type |-> "Swim", intensity_level |-> "variable",
     muscle_groups |-> "[full body, arms, legs, core, cardiovascular]",
     equipment |-> <<Eq("swimsuit", {"swimsuit"}), Eq("goggles", {"goggles"}),
                     Eq("pool", {"pool"}), Eq("fins", {"fins"})>>],
    [name |-> "Weight Training", sport_type |-> "WeightTraining", intensity_level |-> "high",
     muscle_groups |-> "[variable, arms, legs, chest, back, shoulders]",
     equipment |-> <<Eq("dumbbells", {"dumbbells"}), Eq("barbells", {"barbells"}),
                     Eq("machines", {"machines"}), Eq("plates", {"plates"}),
                     Eq("bench", {"bench"})>>],
    [name |-> "Yoga", sport_type |-> "Yoga", intensity_level |-> "variable",
     muscle_groups |-> "[full body, core, flexibility]",
     equipment |-> <<Eq("yoga mat", {"yoga", "mat"}), Eq("blocks", {"blocks"}),
                     Eq("straps", {"straps"})>>],
    [name |-> "Hiking", sport_type |-> "Hike", intensity_level |-> "variable",
     muscle_groups |-> "[legs, core, cardiovascular]",
     equipment |-> <<Eq("hiking boots", {"hiking", "boots"}), Eq("backpack", {"backpack"}),
                     Eq("poles", {"poles"}), Eq("water", {"water"})>>],
    [name |-> "Walking", sport_type |-> "Walk", intensity_level |-> "low",
     muscle_groups |-> "[legs, cardiovascular]",
     equipment |-> <<Eq("walking shoes", {"walking", "shoes"}),
                     Eq("comfortable clothing", {"comfortable", "clothing"})>>],
    [name |-> "Rowing", sport_type |-> "Rowing", intensity_level |-> "high",
     muscle_groups |-> "[full body, back, arms, legs, core]",
     equipment |-> <<Eq("rowing machine", {"rowing", "machine"}), Eq("boat", {"boat"}),
                     Eq("oars", {"oars"})>>] >>

----------------------------------------------------------------------------
(* Prompts: a sequence of tokens, a token being a run of digits or a word. *)

NumTok(n) == [k |-> "num", n |-> n, w |-> ""]
WordTok(w) == [k |-> "word", n |-> 0, w |-> w]

Numbers == {0, 2}
Words == {"minutes"}
FallbackWords == {"minutes", "hr", "run"}
Tokens == {NumTok(n) : n \in Numbers} \cup {WordTok(w) : w \in Words}
FallbackTokens == {NumTok(n) : n \in Numbers} \cup {WordTok(w) : w \in FallbackWords}

RECURSIVE SeqsUpTo(_, _)
SeqsUpTo(S, n) ==
    IF n = 0 THEN {<<>>}
    ELSE LET shorter == SeqsUpTo(S, n - 1)
         IN  shorter \cup {Append(s, x) : s \in {q \in shorter : Len(q) = n - 1}, x \in S}

Prompts == SeqsUpTo(Tokens, MaxPromptLen)
FallbackPrompts == SeqsUpTo(FallbackTokens, MaxFallbackLen)

\* one word for each sport type the keyword scan can give ("run" is no keyword: Run
\* is the default)
SportWords == {"run", "bike", "swim", "hike", "walk", "yoga", "gym", "row", "ski",
               "elliptical"}

\* "<sport word> 2 minutes|hr" for every sport word, and "run 2 minutes <D> km|mile"
RecordPrompts ==
    {<<WordTok(w), NumTok(2), WordTok(u)>> : w \in SportWords, u \in {"minutes", "hr"}}
    \cup {<<WordTok("run"), NumTok(2), WordTok("minutes"), NumTok(d), WordTok(u)>> :
            d \in Numbers, u \in {"km", "mile"}}

\* words of the context scan, and words that only contain or only resemble a keyword
ContextWords == {"morning", "evening", "afternoon", "park", "indoor", "pool", "great",
                 "felt", "amazing", "tough"}

\* the keywords that occur in a word as substrings ("am" occurs in "amazing")
KeywordsIn(w) ==
    CASE w = "minutes" -> {"minute", "min"}
      [] w = "hr"      -> {"hr"}
      [] w \in SportWords \ {"run"} -> {w}
      [] w = "amazing" -> {"amazing", "am"}
      [] w \in ContextWords \ {"felt"} -> {w}
      [] OTHER         -> {}

\* word in prompt_lower: a substring test; the two-word keyword 'felt great' needs
\* the two words next to each other
Occurs(kw, p) ==
    IF kw = "felt great"
    THEN \E i \in 1..(Len(p) - 1) : /\ p[i].k = "word" /\ p[i].w = "felt"
                                     /\ p[i + 1].k = "word" /\ p[i + 1].w = "great"
    ELSE \E i \in 1..Len(p) : p[i].k = "word" /\ kw \in KeywordsIn(p[i].w)

\* any(word in prompt_lower for word in kws)
AnyIn(kws, p) == \E kw \in kws : Occurs(kw, p)

\* a prompt with a duration followed by up to two words, or by two distances
DistanceNumbers == {1, 2}
DistanceUnits == {"km", "k", "mile", "miles"}
ScanPrompts ==
    {<<NumTok(2), WordTok("minutes")>> \o ws :
        ws \in SeqsUpTo({WordTok(w) : w \in (SportWords \ {"run"}) \cup ContextWords}, 2)}
    \cup {<<NumTok(a), WordTok(u), NumTok(2), WordTok("minutes")>> :
            a \in DistanceNumbers, u \in DistanceUnits}
    \cup {<<NumTok(a), WordTok(u), NumTok(b), WordTok(v), NumTok(2), WordTok("minutes")>> :
            a \in DistanceNumbers, u \in DistanceUnits, b \in DistanceNumbers,
            v \in DistanceUnits}

----------------------------------------------------------------------------
(* Knowledge lookup (exercise_knowledge.py) *)

Ctx(t, d) == [t |-> t, d |-> d]
EmptyDict == [k \in {} |-> ""]
Get(d, k) == IF k \in DOMAIN d THEN d[k] ELSE "None"
Put(d, k, v) == [x \in (DOMAIN d) \cup {k} |-> IF x = k THEN v ELSE d[x]]

\* search_exercises: [] without a client or when the store call fails, else the
\* store's ranking, of which only the top match (a catalog index) is used
SearchOutcomes == IF kbClient THEN 0..MaxMatch ELSE {0}

\* lines 324-331: the dict built for a catalog entry has name, description, keywords,
\* equipment and location_types, and neither muscle_groups nor intensity_level
Suggestion(e) == [name |-> e.name, equipment |-> e.equipment]

\* exercise.get(key, default)
GetOr(exercise, key, default) == IF key \in DOMAIN exercise THEN exercise[key] ELSE default

\* what an operation of the knowledge base ends in: a return value, or an exception
\* leaving it
KbReturn(value) == [raised |-> FALSE, value |-> value]

\* the handler left out: the exception of the store call leaves the operation
KbExcept_Reraise(default) == [raised |-> TRUE, value |-> default]

\* lines 297-299, 336-338, 389-392: except Exception: logger.error(...), then the
\* operation returns its default ([] or the input context)
KbExcept(default) == KbReturn(default)

\* search_exercises (253-299): ranking is what the store's hybrid query answers, a
\* sequence of catalog indices
search_exercises(ranking, storeOk) ==
    IF ~kbClient THEN KbReturn(<<>>)
    ELSE IF ~storeOk THEN KbExcept(<<>>)
    ELSE KbReturn([i \in 1..Len(ranking) |-> Catalog[ranking[i]].name])

\* get_exercise_suggestions (301-338): the catalog entries of that sport_type, in
\* catalog order; [] without a client or when the store call fails (storeOk = FALSE)
get_exercise_suggestions(sport_type, storeOk) ==
    IF ~kbClient THEN KbReturn(<<>>)
    ELSE IF ~storeOk THEN KbExcept(<<>>)
    ELSE LET found == SelectSeq(Catalog, LAMBDA e : e.sport_type = sport_type)
         IN  KbReturn([i \in 1..Len(found) |-> Suggestion(found[i])])

\* word in location, for the one-word locations of the model
WordIn(word, location) == word = location

\* for equip in equipment: if any(word in location ...): first match, else "None"
RECURSIVE FirstEquipment(_, _, _)
FirstEquipment(equipment, location, i) ==
    IF i > Len(equipment) THEN "None"
    ELSE IF \E w \in equipment[i].words : WordIn(w, location) THEN equipment[i].s
    ELSE FirstEquipment(equipment, location, i + 1)

\* muscle_groups appended to what the context has instead of assigned
enhance_activity_context_Appends(sport_type, context, storeOk) ==
    LET suggestions == get_exercise_suggestions(sport_type, storeOk) IN
    IF ~kbClient \/ suggestions.value = <<>> \/ context.t # "dict" THEN KbReturn(context)
    ELSE KbReturn(Ctx("dict", Put(context.d, "muscle_groups",
                                  GetOr(context.d, "muscle_groups", "") \o "+[general]")))

\* enhance_activity_context (340-392).  A get_exercise_suggestions that raised, and
\* context.copy() on a context that is no dict, end in the handler of line 389.
enhance_activity_context(sport_type, context, storeOk) ==
    LET suggestions == get_exercise_suggestions(sport_type, storeOk) IN
    IF ~kbClient THEN KbReturn(context)
    ELSE IF suggestions.raised THEN KbExcept(context)
    ELSE IF suggestions.value = <<>> THEN KbReturn(context)
    ELSE IF context.t # "dict" THEN KbExcept(context)
    ELSE
      LET exercise == suggestions.value[1]
          c1 == IF Get(context.d, "keywords") \in {"None", ""}
                THEN Put(context.d, "exercise_keywords", "keywords of " \o exercise.name)
                ELSE context.d
          loc == Get(c1, "location")
          eq == FirstEquipment(exercise.equipment, loc, 1)
          c2 == IF loc \notin {"None", ""} /\ eq # "None" THEN Put(c1, "equipment", eq) ELSE c1
          c3 == Put(c2, "muscle_groups", GetOr(exercise, "muscle_groups", "[]"))
          c4 == IF Get(c3, "intensity") \in {"None", ""}
                THEN Put(c3, "intensity", GetOr(exercise, "intensity_level", "None"))
                ELSE c3
      IN  KbReturn(Ctx("dict", c4))

\* an operation of the knowledge base: its name, its arguments, whether the store
\* answered, the value it returned and whether it raised.  again: the context
\* argument was the value the previous enhance_activity_context returned; once is
\* that previous call: whether the store answered it, and what it returned
Once(storeOk, out) == [store_ok |-> storeOk, out |-> out]
NoOnce == Once(TRUE, Ctx("absent", EmptyDict))
KbCall(op, sport_type, context, storeOk, again, once, out) ==
    [op |-> op, sport_type |-> sport_type, context |-> context, store_ok |-> storeOk,
     again |-> again, once |-> once, found |-> IF op = "enhance_activity_context"
                                                 THEN <<>> ELSE out.value,
     out |-> IF op = "enhance_activity_context" THEN out.value ELSE context,
     raised |-> out.raised]
NoKbCall == KbCall("", "", Ctx("absent", EmptyDict), TRUE, FALSE, NoOnce, KbReturn(<<>>))

NoKnowledge == [matched_exercise |-> "", fallback_method |-> FALSE]
Knowledge(m, fb) == [matched_exercise |-> Catalog[m].name, fallback_method |-> fb]

----------------------------------------------------------------------------
(* _fallback_parse_prompt (strava_activity_agent.py 515-621) *)

\* the alternative of (?:minute|min|hr|hour) that the text after the digits starts with
DurationAlt(w) ==
    CASE w \in {"minute", "minutes"} -> "minute"
      [] w \in {"min", "mins"}       -> "min"
      [] w \in {"hr", "hrs"}         -> "hr"
      [] w \in {"hour", "hours"}     -> "hour"
      [] OTHER                       -> ""

\* the alternative of (?:km|k|mile) that the text after the number starts with
DistanceAlt(w) ==
    CASE w \in {"km", "kms"}      -> "km"
      [] w \in {"k"}              -> "k"
      [] w \in {"mile", "miles"}  -> "mile"
      [] OTHER                    -> ""

\* re.search for the duration: the leftmost position where digits are followed by
\* a unit; 0 = no match
RECURSIVE DurationSearchFrom(_, _)
DurationSearchFrom(p, i) ==
    IF i >= Len(p) THEN 0
    ELSE IF p[i].k = "num" /\ p[i + 1].k = "word" /\ DurationAlt(p[i + 1].w) # "" THEN i
    ELSE DurationSearchFrom(p, i + 1)

DurationSearch(p) == DurationSearchFrom(p, 1)

\* re.search for the distance
RECURSIVE DistanceSearchFrom(_, _)
DistanceSearchFrom(p, i) ==
    IF i >= Len(p) THEN 0
    ELSE IF p[i].k = "num" /\ p[i + 1].k = "word" /\ DistanceAlt(p[i + 1].w) # "" THEN i
    ELSE DistanceSearchFrom(p, i + 1)

DistanceSearch(p) == DistanceSearchFrom(p, 1)

\* the conversion of miles left out
FallbackDistance_KmOnly(p) ==
    LET j == DistanceSearch(p) IN IF j = 0 THEN Null ELSE Num(p[j].n * MetersPerKm)

\* the scan in the opposite order: the last category wins
KeywordSport_LastWins(p) ==
    IF AnyIn({"elliptical"}, p) THEN "Elliptical"
    ELSE IF AnyIn({"ski", "skiing"}, p) THEN "CrossCountrySkiing"
    ELSE IF AnyIn({"rowing", "row"}, p) THEN "Rowing"
    ELSE IF AnyIn({"weight", "lifting", "gym", "strength"}, p) THEN "WeightTraining"
    ELSE IF AnyIn({"yoga", "stretching"}, p) THEN "Yoga"
    ELSE IF AnyIn({"walk", "walking"}, p) THEN "Walk"
    ELSE IF AnyIn({"hike", "hiking", "trail"}, p) THEN "Hike"
    ELSE IF AnyIn({"swim", "swimming", "pool"}, p) THEN "Swim"
    ELSE IF AnyIn({"bike", "cycling", "cycle", "rode"}, p) THEN "Ride"
    ELSE "Run"

\* only 'hour' tested
IsHourMatch_HourOnly(alt) == alt = "hour"

\* 'hour' in duration_match.group(0) or 'hr' in duration_match.group(0)
IsHourMatch(alt) == alt \in {"hour", "hr"}

\* duration = int(group(1)); duration *= 60 for hours
FallbackDuration(p, i) ==
    IF IsHourMatch(DurationAlt(p[i + 1].w)) THEN p[i].n * MinutesPerHour ELSE p[i].n

\* distance = float(group(1)); distance *= 1.609 for miles (thousandths of a km)
FallbackDistance(p) ==
    LET j == DistanceSearch(p) IN
    IF j = 0 THEN Null
    ELSE IF DistanceAlt(p[j + 1].w) = "mile" THEN Num(p[j].n * MetersPerMile)
    ELSE Num(p[j].n * MetersPerKm)

\* the ordered keyword scan of the sport type
KeywordSport(p) ==
    IF AnyIn({"bike", "cycling", "cycle", "rode"}, p) THEN "Ride"
    ELSE IF AnyIn({"swim", "swimming", "pool"}, p) THEN "Swim"
    ELSE IF AnyIn({"hike", "hiking", "trail"}, p) THEN "Hike"
    ELSE IF AnyIn({"walk", "walking"}, p) THEN "Walk"
    ELSE IF AnyIn({"yoga", "stretching"}, p) THEN "Yoga"
    ELSE IF AnyIn({"weight", "lifting", "gym", "strength"}, p) THEN "WeightTraining"
    ELSE IF AnyIn({"rowing", "row"}, p) THEN "Rowing"
    ELSE IF AnyIn({"ski", "skiing"}, p) THEN "CrossCountrySkiing"
    ELSE IF AnyIn({"elliptical"}, p) THEN "Elliptical"
    ELSE "Run"

FallbackSport(p, m) == IF m # 0 THEN Catalog[m].sport_type ELSE KeywordSport(p)

\* the keyword scan of the context
FallbackContext(p) ==
    LET c0 == EmptyDict
        c1 == IF AnyIn({"morning", "am"}, p) THEN Put(c0, "time_of_day", "morning")
              ELSE IF AnyIn({"evening", "night", "pm"}, p) THEN Put(c0, "time_of_day", "evening")
              ELSE IF AnyIn({"afternoon"}, p) THEN Put(c0, "time_of_day", "afternoon")
              ELSE c0
        c2 == IF AnyIn({"park", "outdoor", "outside"}, p) THEN Put(c1, "location", "outdoor")
              ELSE IF AnyIn({"gym", "indoor"}, p) THEN Put(c1, "location", "gym")
              ELSE c1
        c3 == IF AnyIn({"felt great", "amazing", "awesome", "fantastic"}, p)
              THEN Put(c2, "feeling", "great")
              ELSE IF AnyIn({"tough", "hard", "difficult", "challenging"}, p)
              THEN Put(c2, "feeling", "challenging")
              ELSE c2
    IN  Ctx("dict", c3)

NoData == [sport_type |-> "absent", duration_minutes |-> Absent, distance_km |-> Absent,
           name |-> Absent, description_style |-> "absent", confidence |-> Absent,
           context |-> Ctx("absent", EmptyDict), exercise_knowledge |-> NoKnowledge]

ParseError(msg) == [status |-> "error", parsed_data |-> NoData, message |-> msg, method |-> ""]
ParseSuccess(data, method) ==
    [status |-> "success", parsed_data |-> data, message |-> "", method |-> method]

MsgNoDuration == "Could not find duration in your description."

\* m: the top match of the fallback's own search_exercises; storeOk: the store
\* answers get_exercise_suggestions
_fallback_parse_prompt(p, m, storeOk) ==
    LET i == DurationSearch(p) IN
    IF i = 0 THEN ParseError(MsgNoDuration)
    ELSE
      LET sport_type == FallbackSport(p, m)
          context == IF m # 0
                     THEN enhance_activity_context(sport_type, FallbackContext(p),
                                                   storeOk).value
                     ELSE FallbackContext(p)
      IN  ParseSuccess(
            [sport_type |-> sport_type,
             duration_minutes |-> Num(FallbackDuration(p, i)),
             distance_km |-> FallbackDistance(p),
             name |-> Null,
             description_style |-> "casual",
             confidence |-> Num(FallbackConfidence),
             context |-> context,
             exercise_knowledge |-> IF m # 0 THEN Knowledge(m, TRUE) ELSE NoKnowledge],
            "fallback_with_exercise_knowledge")

----------------------------------------------------------------------------
(* parse_activity_prompt (strava_activity_agent.py 371-513) *)

Response(kind, obj) == [kind |-> kind, obj |-> obj]

\* the JSON object of a completion: the keys the parser and the workflow read
Object(sport, dur, conf, nm) ==
    [sport_type |-> sport, duration_minutes |-> dur, distance_km |-> Null, name |-> nm,
     description_style |-> "absent", confidence |-> conf, context |-> Ctx("absent", EmptyDict),
     exercise_knowledge |-> NoKnowledge]

\* the call raised (timeout, connection error) or answered with a status other than 200
UnavailableKinds == {"exception", "non200"}

\* a 200 answer whose envelope is not {"choices": [{"message": {"content": text}}]}
EnvelopeKinds == {"bad_body", "no_choices", "empty_choices", "no_content", "null_content",
                  "empty_content"}

\* a 200 answer with content that json.loads rejects, or that is no JSON object
ContentKinds == {"not_json", "json_non_object"}

UnavailableResponses == {Response(k, NoData) : k \in UnavailableKinds}

InvalidDurations == {Absent, Null, Str, Num(0), Num(-5)}
ValidDurations == {Num(30)}
\* "None" is a JSON null
ModelSports == {"absent", "None", "Run", "Dance"}
ModelConfidences == {Absent, Num(29), Num(30), Num(90), Str}
ModelNames == {Null, Str}

ParseResponses ==
    UnavailableResponses
    \cup {Response(k, NoData) : k \in EnvelopeKinds \cup ContentKinds}
    \cup {Response("object", Object("Run", d, Absent, Null)) :
            d \in InvalidDurations \cup {Bool(TRUE), Frac(30, 5)}}
    \cup {Response("object", Object(sp, d, c, nm)) :
            sp \in ModelSports, d \in ValidDurations, c \in ModelConfidences, nm \in ModelNames}

MsgInvalidStructure == "AI returned invalid response structure"
MsgEmptyContent == "AI returned empty response"

\* not isinstance(d, (int, float)) or d <= 0  raises ValueError
InvalidDuration(d) == ~IsNumber(d) \/ LeqZero(d)

\* the default assigned whatever the object holds
SetDefault_Always(x, default) == default

\* setdefault(key, default): only a missing key gets the default
SetDefault(x, default) == IF x.t = "absent" THEN default ELSE x

\* lines 474-496: defaults, enrichment, metadata
ModelParsedData(obj, m, storeOk) ==
    LET context == IF obj.context.t = "absent" THEN Ctx("dict", EmptyDict) ELSE obj.context
    IN  [obj EXCEPT
          !.description_style = IF @ = "absent" THEN "casual" ELSE @,
          !.confidence = SetDefault(@, Num(DefaultConfidence)),
          !.context = IF m # 0
                      THEN enhance_activity_context(obj.sport_type, context, storeOk).value
                      ELSE context,
          !.exercise_knowledge = IF m # 0 THEN Knowledge(m, FALSE) ELSE NoKnowledge]

\* which return statement a response leads to
ParseRoute(r) ==
    CASE r.kind \in {"no_choices", "empty_choices"} -> "error_structure"    \* 449-451
      [] r.kind = "empty_content" -> "error_empty"                          \* 456-458
      [] r.kind = "object" /\ ~InvalidDuration(r.obj.duration_minutes) -> "model"
      [] OTHER -> "fallback"                                                \* 501, 505, 509, 513

\* m: exercise_matches of line 375; fm, storeOk: the store during this step
parse_activity_prompt(p, m, r, fm, storeOk) ==
    LET route == ParseRoute(r) IN
    CASE route = "error_structure" -> ParseError(MsgInvalidStructure)
      [] route = "error_empty" -> ParseError(MsgEmptyContent)
      [] route = "model" -> ParseSuccess(ModelParsedData(r.obj, m, storeOk), "")
      [] OTHER -> _fallback_parse_prompt(p, fm, storeOk)

----------------------------------------------------------------------------
(* Name and description generation (writer_client.py 413-657) *)

\* outcome of a generation completion call: a 200 answer with content, a 200 answer
\* without usable choices[0].message.content, another status, or the call raising
\* (timeout, connection error)
GenResponses == {"ok", "malformed", "non200", "exception"}

\* a generated string: which template produced it, the sport_type text it embeds
\* ("" when none) and the duration it embeds (Absent when none)
Text(kind, sport, minutes) == [kind |-> kind, sport |-> sport, minutes |-> minutes]
NoText == Text("none", "", Absent)

\* a generator that raised to its caller
Raised == Text("raise", "", Absent)

\* sport_type is a str (a JSON null or number of the model output is not)
IsStr(sport_type) == sport_type \notin {"None", "absent"}

\* sport_type.lower()
Lower(sport_type) ==
    CASE sport_type = "Run" -> "run"
      [] sport_type = "Ride" -> "ride"
      [] sport_type = "Swim" -> "swim"
      [] sport_type = "Hike" -> "hike"
      [] sport_type = "Walk" -> "walk"
      [] sport_type = "WeightTraining" -> "weighttraining"
      [] sport_type = "Yoga" -> "yoga"
      [] sport_type = "CrossCountrySkiing" -> "crosscountryskiing"
      [] sport_type = "Rowing" -> "rowing"
      [] sport_type = "Elliptical" -> "elliptical"
      [] sport_type = "Dance" -> "dance"
      [] OTHER -> sport_type

\* fallback_jokes: the fixed name of each sport type, with what it embeds.  Only
\* "Running Late ...", "Just Keep Swimming ..." and "Walking My Way ..." contain their
\* sport_type as a substring; none contains the duration.
fallback_jokes(sport_type) ==
    Text("fallback_joke " \o sport_type,
         IF sport_type \in {"Run", "Swim", "Walk"} THEN sport_type ELSE "", Absent)

\* generate_activity_name_with_context
generate_activity_name_with_context(sport_type, r) ==
    CASE r = "ok" -> Text("ai", "", Absent)                               \* 625-633
      [] r = "exception" -> Text("comedy_hour", sport_type, Absent)      \* 655-657
      [] OTHER -> IF sport_type \in SportTypes                           \* 639-653
                  THEN fallback_jokes(sport_type)
                  ELSE Text("giggles", sport_type, Absent)

\* generate_activity_description_with_context; sport_type.lower() raises for a
\* sport_type that is no str, in the fallback and again in the except handler
generate_activity_description_with_context(sport_type, duration_minutes, r) ==
    CASE r = "ok" -> Text("ai", "", Absent)                               \* 508-516
      [] ~IsStr(sport_type) -> Raised                                    \* 523, 533
      [] r = "exception" ->
           Text("completed", Lower(sport_type), Num(duration_minutes))   \* 531-533
      [] OTHER ->
           Text("great_session", Lower(sport_type), Num(duration_minutes)) \* 522-529

----------------------------------------------------------------------------
(* StravaAPIClient (strava_client.py) *)

NoTokens == [access_token |-> "None", refresh_token |-> "None", token_expires_at |-> Null]
Expiries == {2000}
Clock == {0, 1800}
ServiceOutcomes == {"ok", "fail"}

Record(nm, sport, elapsed, descr, dist) ==
    [name |-> nm, sport_type |-> sport, elapsed_time |-> elapsed, description |-> descr,
     distance |-> dist]
NoRecord == Record(NoText, "", 0, NoText, Absent)

\* _ensure_valid_token: the token is refreshed before the request
NeedsRefresh(tk, t) ==
    Truthy(tk.token_expires_at) /\ t + RefreshBuffer >= tk.token_expires_at.v

\* the token triple of a refresh response received at time t
RefreshedTokens(t) ==
    [access_token |-> "at1", refresh_token |-> "rt1", token_expires_at |-> Num(t + 21600)]

\* the token triple of an authorization-code exchange response received at time t
ExchangedTokens(t) ==
    [access_token |-> "at2", refresh_token |-> "rt2", token_expires_at |-> Num(t + 21600)]

\* a response of the token endpoint: the request failed (RequestException: network
\* error or a status raise_for_status rejects), or a JSON body with some of the keys
TokenKeys == {"access_token", "refresh_token", "expires_at"}
TokenResponse(kind, body, keys) == [kind |-> kind, body |-> body, keys |-> keys]
FailedResponse == TokenResponse("fail", NoTokens, {})
WholeResponse(body) == TokenResponse("ok", body, TokenKeys)
TokenResponses(body) ==
    {FailedResponse, WholeResponse(body)}
    \cup {TokenResponse("ok", body, TokenKeys \ {k}) : k \in TokenKeys}

\* the token response the workflow's refresh gets
RefreshResponse(refreshOutcome, t) ==
    IF refreshOutcome = "ok" THEN WholeResponse(RefreshedTokens(t)) ELSE FailedResponse

\* lines 97-99 and 140-142: three assignments in order; token_data[key] raises
\* KeyError at the first missing key, which 'except RequestException' does not catch
StoreTokens(tk, response) ==
    LET t1 == [tk EXCEPT !.access_token = response.body.access_token]
        t2 == [t1 EXCEPT !.refresh_token = response.body.refresh_token]
        t3 == [t2 EXCEPT !.token_expires_at = response.body.token_expires_at]
    IN  IF "access_token" \notin response.keys
        THEN [exc |-> "KeyError: 'access_token'", tokens |-> tk, posts |-> 1]
        ELSE IF "refresh_token" \notin response.keys
        THEN [exc |-> "KeyError: 'refresh_token'", tokens |-> t1, posts |-> 1]
        ELSE IF "expires_at" \notin response.keys
        THEN [exc |-> "KeyError: 'expires_at'", tokens |-> t2, posts |-> 1]
        ELSE [exc |-> "", tokens |-> t3, posts |-> 1]

\* exchange_token
exchange_token(tk, response) ==
    IF response.kind = "fail"
    THEN [exc |-> "Failed to exchange authorization code", tokens |-> tk, posts |-> 1]
    ELSE StoreTokens(tk, response)

\* refresh_access_token
refresh_access_token(tk, response) ==
    IF tk.refresh_token = "None"
    THEN [exc |-> "No refresh token available", tokens |-> tk, posts |-> 0]
    ELSE IF response.kind = "fail"
    THEN [exc |-> "Failed to refresh access token", tokens |-> tk, posts |-> 1]
    ELSE StoreTokens(tk, response)

\* set_tokens
set_tokens(access_token, refresh_token, expires_at) ==
    [access_token |-> access_token, refresh_token |-> refresh_token,
     token_expires_at |-> expires_at]

MsgAuthenticateFirst == "No access token available. Please authenticate first."

\* _ensure_valid_token
_ensure_valid_token(tk, t, response) ==
    IF tk.access_token = "None"
    THEN [exc |-> MsgAuthenticateFirst, tokens |-> tk, refreshes |-> 0]
    ELSE IF NeedsRefresh(tk, t)
    THEN LET r == refresh_access_token(tk, response)
         IN  [exc |-> r.exc, tokens |-> r.tokens, refreshes |-> r.posts]
    ELSE [exc |-> "", tokens |-> tk, refreshes |-> 0]

\* a request to the activity API: method, endpoint, the bearer token of its
\* Authorization header, the keys of its JSON body and (for an update) their values
Request(method, endpoint, bearer, keys, values) ==
    [method |-> method, endpoint |-> endpoint, bearer |-> bearer, keys |-> keys,
     values |-> values]
NoRequest == Request("", "", "None", {}, EmptyDict)

\* what a client operation did: the exception it raised ("" when it returned), the
\* token triple it left, the refresh and API requests it made, the API request
Outcome(exc, tk, refreshes, requests, request) ==
    [exc |-> exc, tokens |-> tk, refreshes |-> refreshes, requests |-> requests,
     request |-> request]

\* the Authorization header built before _ensure_valid_token ran
MakeRequest_StaleBearer(tk, t, response, apiOutcome, method, endpoint, keys, values) ==
    LET ev == _ensure_valid_token(tk, t, response) IN
    IF ev.exc # "" THEN Outcome(ev.exc, ev.tokens, ev.refreshes, 0, NoRequest)
    ELSE Outcome(IF apiOutcome = "fail" THEN "Strava API request failed" ELSE "",
                 ev.tokens, ev.refreshes, 1,
                 Request(method, endpoint, tk.access_token, keys, values))

\* a refused request sent a second time
MakeRequest_Retries(tk, t, response, apiOutcome, method, endpoint, keys, values) ==
    LET ev == _ensure_valid_token(tk, t, response) IN
    IF ev.exc # "" THEN Outcome(ev.exc, ev.tokens, ev.refreshes, 0, NoRequest)
    ELSE Outcome(IF apiOutcome = "fail" THEN "Strava API request failed" ELSE "",
                 ev.tokens, ev.refreshes, IF apiOutcome = "fail" THEN 2 ELSE 1,
                 Request(method, endpoint, ev.tokens.access_token, keys, values))

\* _make_authenticated_request
_make_authenticated_request(tk, t, response, apiOutcome, method, endpoint, keys, values) ==
    LET ev == _ensure_valid_token(tk, t, response) IN
    IF ev.exc # "" THEN Outcome(ev.exc, ev.tokens, ev.refreshes, 0, NoRequest)
    ELSE Outcome(IF apiOutcome = "fail" THEN "Strava API request failed" ELSE "",
                 ev.tokens, ev.refreshes, 1,
                 Request(method, endpoint, ev.tokens.access_token, keys, values))

\* a client operation: its name, the keys (and, for an update, the values) of its
\* argument, the token triple before it, the time it read, and what it did
Call(op, keys, values, before, t, out) ==
    [op |-> op, keys |-> keys, values |-> values, before |-> before, t |-> t, out |-> out]
NoCall == Call("", {}, EmptyDict, NoTokens, 0, Outcome("", NoTokens, 0, 0, NoRequest))

required_fields == {"name", "sport_type", "start_date_local", "elapsed_time"}
optional_fields == {"type", "description", "distance", "trainer", "commute"}
allowed_fields == {"name", "type", "sport_type", "description", "trainer", "commute",
                   "hide_from_home", "gear_id"}

\* response.raise_for_status() left out: a refused request returns like an accepted one
create_activity_Unchecked(activity_data, tk, t, response, apiOutcome) ==
    IF tk.access_token = "None"
    THEN Outcome(MsgAuthenticateFirst, tk, 0, 0, NoRequest)
    ELSE Outcome("", tk, 0, 1, Request("POST", "/activities", tk.access_token,
                                       activity_data, EmptyDict))

\* the required fields tested after the request instead of before it
create_activity_SendsFirst(activity_data, tk, t, response, apiOutcome) ==
    LET out == _make_authenticated_request(tk, t, response, apiOutcome, "POST", "/activities",
                                        activity_data, EmptyDict)
    IN  IF required_fields \subseteq activity_data THEN out
        ELSE [out EXCEPT !.exc = "Missing required field"]

\* create_activity; activity_data: the keys of the record
create_activity(activity_data, tk, t, response, apiOutcome) ==
    IF ~(required_fields \subseteq activity_data)
    THEN Outcome("Missing required field", tk, 0, 0, NoRequest)
    ELSE _make_authenticated_request(tk, t, response, apiOutcome, "POST", "/activities",
                                  activity_data \cap (required_fields \cup optional_fields),
                                  EmptyDict)

\* the payload sent unfiltered
update_activity_Unfiltered(updates, tk, t, response, apiOutcome) ==
    _make_authenticated_request(tk, t, response, apiOutcome, "PUT", "/activities/{id}",
                             DOMAIN updates, updates)

\* update_activity; updates: the caller's dict
update_activity(updates, tk, t, response, apiOutcome) ==
    LET payload == [k \in (DOMAIN updates) \cap allowed_fields |-> updates[k]] IN
    IF DOMAIN payload = {}
    THEN Outcome("No valid fields provided for update", tk, 0, 0, NoRequest)
    ELSE _make_authenticated_request(tk, t, response, apiOutcome, "PUT", "/activities/{id}",
                                  DOMAIN payload, payload)

\* get_athlete, get_activity, get_activities
get_athlete(tk, t, response, apiOutcome) ==
    _make_authenticated_request(tk, t, response, apiOutcome, "GET", "/athlete", {}, EmptyDict)
get_activity(tk, t, response, apiOutcome) ==
    _make_authenticated_request(tk, t, response, apiOutcome, "GET", "/activities/{id}", {},
                             EmptyDict)
get_activities(tk, t, response, apiOutcome) ==
    _make_authenticated_request(tk, t, response, apiOutcome, "GET", "/athlete/activities", {},
                             EmptyDict)

----------------------------------------------------------------------------
(* create_activity_from_prompt and create_quick_activity_with_ai               *)
(* (strava_activity_agent.py 623-713)                                          *)

NoInfo == [original_prompt |-> <<>>, parsed_data |-> NoData, confidence |-> Absent]

Result(status, msg, hasMsg, act, hasAct, info, hasInfo) ==
    [status |-> status, message |-> msg, has_message |-> hasMsg,
     activity |-> act, has_activity |-> hasAct,
     parsing_info |-> info, has_parsing_info |-> hasInfo]
NoResult == Result("", "", FALSE, NoRecord, FALSE, NoInfo, FALSE)
Error(msg) == Result("error", msg, TRUE, NoRecord, FALSE, NoInfo, FALSE)

MsgLowConfidence == "Unable to understand the activity details from your prompt."

\* what a step of the coroutine ends in: a return value, or an exception leaving it
Returned(r) == [raised |-> FALSE, result |-> r]

\* the handler left out: the exception leaves the coroutine
WorkflowExcept_Missing(msg) == [raised |-> TRUE, result |-> NoResult]

\* lines 661-663: except Exception as e: return {"status": "error", "message": str(e)}
WorkflowExcept(msg) == Returned(Error(msg))

\* lines 711-713, the same handler in create_quick_activity_with_ai
QuickExcept(msg) == Returned(Error(msg))

\* a numeric confidence in hundredths (True is 1.0)
Hundredths(c) == IF c.t = "bool" THEN c.v * 100 ELSE c.v

\* the gate left out
GateRejects_Never(c) == FALSE

\* line 635: parsed_data.get("confidence", 0) < 0.3, for a confidence that compares
GateRejects(c) == c.t # "nan" /\ Hundredths(c) < GateThreshold

\* int(x) for a Python number that is not NaN
IntOf(x) == x.v

\* lines 627-649 up to the first await inside create_quick_activity_with_ai:
\* next = "done" with the outcome, or the generation call the coroutine now awaits
AfterParse(pr) ==
    LET data == pr.parsed_data
        c == SetDefault(data.confidence, Num(0))
    IN  IF pr.status # "success"
        THEN [next |-> "done", out |-> Returned(Error(pr.message))]              \* 629-630
        ELSE IF ~IsNumber(c)
        THEN [next |-> "done", out |-> WorkflowExcept("TypeError: '<' not supported")]
        ELSE IF GateRejects(c)
        THEN [next |-> "done", out |-> Returned(Error(MsgLowConfidence))]        \* 635-639
        ELSE IF data.sport_type = "absent"
        THEN [next |-> "done", out |-> WorkflowExcept("KeyError: 'sport_type'")]
        ELSE IF data.duration_minutes.t = "nan"
        THEN [next |-> "done", out |-> WorkflowExcept("ValueError: cannot convert float NaN")]
        ELSE IF ~Truthy(data.name)
        THEN [next |-> "await_name", out |-> Returned(NoResult)]                 \* 676-679
        ELSE [next |-> "await_desc", out |-> Returned(NoResult)]                 \* 682-684

\* lines 687-698
ActivityData(nm, data, descr) ==
    Record(nm, data.sport_type, IntOf(data.duration_minutes) * SecondsPerMinute, descr,
           IF Truthy(data.distance_km)
           THEN Num(data.distance_km.v)      \* thousandths of a km are metres
           ELSE Absent)

\* lines 700-709 and 651-659
WorkflowSuccess(activity, p, data) ==
    Returned(Result("success", "", FALSE, activity, TRUE,
                    [original_prompt |-> p, parsed_data |-> data,
                     confidence |-> SetDefault(data.confidence, Num(0))], TRUE))

\* the keys of activity_data (lines 687-698)
RecordKeys(record) ==
    {"name", "sport_type", "start_date_local", "elapsed_time", "description", "trainer",
     "commute"} \cup (IF record.distance = Absent THEN {} ELSE {"distance"})

NoCalls == [parse |-> 0, name |-> 0, description |-> 0, create |-> 0, refresh |-> 0, api |-> 0]

----------------------------------------------------------------------------
(* The state machine *)

Init ==
    /\ kbClient \in BOOLEAN
    /\ tokens = NoTokens
    /\ pc = "idle"
    /\ prompt = <<>>
    /\ matches = 0
    /\ resp = Response("none", NoData)
    /\ parse_result = ParseError("")
    /\ via = ""
    /\ fb_matches = 0
    /\ store_ok = TRUE
    /\ name = NoText
    /\ now = 0
    /\ calls = NoCalls
    /\ sent = NoRecord
    /\ accepted = FALSE
    /\ result = NoResult
    /\ raised = FALSE
    /\ last_call = NoCall
    /\ user_sessions = <<>>
    /\ requester = ""
    /\ kb_call = NoKbCall

\* main.py 411-416: the tokens of the session are installed before the workflow runs
SetTokens ==
    /\ pc = "idle"
    /\ \E e \in Expiries :
         tokens' = [access_token |-> "at0", refresh_token |-> "rt0",
                    token_expires_at |-> Num(e)]
    /\ UNCHANGED <<last_call, user_sessions, requester, kb_call>>
    /\ UNCHANGED <<kbClient, pc, prompt, matches, resp, parse_result, via, fb_matches,
                   store_ok, name, now, calls, sent, accepted, result, raised>>

\* create_activity_from_prompt is called: parse_activity_prompt runs up to the await
\* of the completion call (lines 373-444)
Invoke(P) ==
    /\ pc = "idle"
    /\ \E p \in P, m \in SearchOutcomes :
         /\ prompt' = p
         /\ matches' = m
    /\ pc' = "await_parse"
    /\ calls' = [calls EXCEPT !.parse = @ + 1]
    /\ UNCHANGED <<last_call, user_sessions, requester, kb_call>>
    /\ UNCHANGED <<kbClient, tokens, resp, parse_result, via, fb_matches, store_ok, name,
                   now, sent, accepted, result, raised>>

\* the completion call ends: the rest of parse_activity_prompt, the gate, and
\* create_quick_activity_with_ai up to its first await
ParseResponse(R) ==
    /\ pc = "await_parse"
    /\ \E r \in R, fm \in SearchOutcomes, ok \in BOOLEAN :
         LET route == ParseRoute(r)
             pr == parse_activity_prompt(prompt, matches, r, fm, ok)
             after == AfterParse(pr)
         IN  /\ route # "fallback" => fm = 0
             /\ ~ok => /\ kbClient
                       /\ \/ route = "model" /\ matches # 0
                          \/ route = "fallback" /\ fm # 0 /\ pr.status = "success"
             /\ resp' = r
             /\ fb_matches' = fm
             /\ store_ok' = ok
             /\ via' = route
             /\ parse_result' = pr
             /\ pc' = after.next
             /\ result' = after.out.result
             /\ raised' = after.out.raised
             /\ name' = IF after.next = "await_desc" THEN Text("given", "", Absent) ELSE NoText
             /\ calls' = [calls EXCEPT
                            !.name = IF after.next = "await_name" THEN @ + 1 ELSE @,
                            !.description = IF after.next = "await_desc" THEN @ + 1 ELSE @]
    /\ UNCHANGED <<last_call, user_sessions, requester, kb_call>>
    /\ UNCHANGED <<kbClient, tokens, prompt, matches, now, sent, accepted>>

\* the name completion call ends (lines 677-684): the description call is sent
NameResponse ==
    /\ pc = "await_name"
    /\ \E r \in GenResponses :
         name' = generate_activity_name_with_context(parse_result.parsed_data.sport_type, r)
    /\ pc' = "await_desc"
    /\ calls' = [calls EXCEPT !.description = @ + 1]
    /\ UNCHANGED <<last_call, user_sessions, requester, kb_call>>
    /\ UNCHANGED <<kbClient, tokens, prompt, matches, resp, parse_result, via, fb_matches,
                   store_ok, now, sent, accepted, result, raised>>

\* the description completion call ends (lines 682-713, 651-659): the record is built
\* and handed to the activity-service client, which is synchronous
DescResponse ==
    /\ pc = "await_desc"
    /\ \E r \in GenResponses, t \in Clock, ro \in ServiceOutcomes, ao \in ServiceOutcomes :
         LET data == parse_result.parsed_data
             descr == generate_activity_description_with_context(
                          data.sport_type, IntOf(data.duration_minutes), r)
             failed == descr = Raised
             record == ActivityData(name, data, descr)
             created == create_activity(RecordKeys(record), tokens, t,
                                        RefreshResponse(ro, t), ao)
             out == IF failed THEN QuickExcept("AttributeError: no attribute 'lower'")
                    ELSE IF created.exc = "" THEN WorkflowSuccess(record, prompt, data)
                    ELSE QuickExcept(created.exc)
         IN  \* an input that nothing reads has one value: the clock without a token
             \* (or without a record), the token response when no refresh is due, the
             \* activity service's answer when no request is sent
             /\ (failed \/ tokens.access_token = "None") => t = 0
             /\ ro = "fail" => (~failed /\ created.refreshes > 0)
             /\ ao = "fail" => (~failed /\ created.requests > 0)
             /\ sent' = IF failed THEN sent ELSE record
             /\ tokens' = IF failed THEN tokens ELSE created.tokens
             /\ now' = IF failed \/ tokens.access_token = "None" THEN now ELSE t
             /\ accepted' = (~failed /\ created.requests = 1 /\ ao = "ok")
             /\ calls' = IF failed THEN calls
                         ELSE [calls EXCEPT !.create = @ + 1,
                                            !.refresh = @ + created.refreshes,
                                            !.api = @ + created.requests]
             /\ result' = out.result
             /\ raised' = out.raised
             /\ last_call' = IF failed THEN last_call
                             ELSE Call("create_activity", RecordKeys(record), EmptyDict,
                                       tokens, t, created)
    /\ pc' = "done"
    /\ UNCHANGED <<kbClient, prompt, matches, resp, parse_result, via, fb_matches, store_ok,
                   name, user_sessions, requester, kb_call>>

----------------------------------------------------------------------------
(* Operations called on the StravaAPIClient directly *)

\* expires_at values a caller hands to set_tokens
ClientExpiries == {Num(0), Num(2000)}

\* activity_data of a direct create_activity call: complete, with one required field
\* missing, or with a field the payload does not take
ActivityDatas ==
    LET complete == required_fields \cup {"description"} IN
    {complete, complete \cup {"distance", "gear_id"}}
    \cup {complete \ {k} : k \in required_fields}

\* the updates of a direct update_activity call
UpdateKeys == {"name", "distance"}
UpdateValues == {"a", "b"}
Updates == UNION {[ks -> UpdateValues] : ks \in SUBSET UpdateKeys}

\* the token responses an API operation at time t can meet: none is requested unless
\* the token is refreshed
RefreshResponses(t) ==
    IF tokens.access_token # "None" /\ NeedsRefresh(tokens, t) /\ tokens.refresh_token # "None"
    THEN TokenResponses(RefreshedTokens(t))
    ELSE {FailedResponse}

\* what a call of the token endpoint did
TokenOutcome(r) == Outcome(r.exc, r.tokens, r.posts, 0, NoRequest)

\* the operation ran: the client holds the tokens it left
Called(op, keys, values, t, out) ==
    /\ tokens' = out.tokens
    /\ now' = t
    /\ last_call' = Call(op, keys, values, tokens, t, out)
    /\ UNCHANGED <<workflowVars, sessionVars, kb_call>>

SetClientTokens ==
    \E e \in ClientExpiries :
        Called("set_tokens", {}, EmptyDict, now,
               Outcome("", set_tokens("at0", "rt0", e), 0, 0, NoRequest))

ExchangeToken ==
    \E t \in Clock :
      \E response \in TokenResponses(ExchangedTokens(t)) :
        Called("exchange_token", {}, EmptyDict, t,
               TokenOutcome(exchange_token(tokens, response)))

RefreshAccessToken ==
    \E t \in Clock :
      \E response \in TokenResponses(RefreshedTokens(t)) :
        Called("refresh_access_token", {}, EmptyDict, t,
               TokenOutcome(refresh_access_token(tokens, response)))

GetAthlete ==
    \E t \in Clock, ao \in ServiceOutcomes :
      \E response \in RefreshResponses(t) :
        Called("get_athlete", {}, EmptyDict, t, get_athlete(tokens, t, response, ao))

GetActivity ==
    \E t \in Clock, ao \in ServiceOutcomes :
      \E response \in RefreshResponses(t) :
        Called("get_activity", {}, EmptyDict, t, get_activity(tokens, t, response, ao))

GetActivities ==
    \E t \in Clock, ao \in ServiceOutcomes :
      \E response \in RefreshResponses(t) :
        Called("get_activities", {}, EmptyDict, t, get_activities(tokens, t, response, ao))

CreateActivity ==
    \E t \in Clock, ao \in ServiceOutcomes, activity_data \in ActivityDatas :
      \E response \in RefreshResponses(t) :
        Called("create_activity", activity_data, EmptyDict, t,
               create_activity(activity_data, tokens, t, response, ao))

UpdateActivity ==
    \E t \in Clock, ao \in ServiceOutcomes, updates \in Updates :
      \E response \in RefreshResponses(t) :
        Called("update_activity", DOMAIN updates, updates, t,
               update_activity(updates, tokens, t, response, ao))

NextClient ==
    \/ SetClientTokens
    \/ ExchangeToken
    \/ RefreshAccessToken
    \/ GetAthlete
    \/ GetActivity
    \/ GetActivities
    \/ CreateActivity
    \/ UpdateActivity

SpecClient == Init /\ [][NextClient]_vars

----------------------------------------------------------------------------
(* The workflow *)

Next ==
    \/ SetTokens
    \/ Invoke(Prompts)
    \/ ParseResponse(ParseResponses)
    \/ NameResponse
    \/ DescResponse

Spec == Init /\ [][Next]_vars

\* the parse of longer prompts with the completion model unavailable, up to the
\* first generation call
NextNoModel ==
    \/ Invoke(FallbackPrompts)
    \/ ParseResponse(UnavailableResponses)

SpecNoModel == Init /\ [][NextNoModel]_vars

\* the whole workflow on prompts naming every sport type and a distance, with the
\* parse completion call unavailable
NextRecord ==
    \/ SetTokens
    \/ Invoke(RecordPrompts)
    \/ ParseResponse(UnavailableResponses)
    \/ NameResponse
    \/ DescResponse

SpecRecord == Init /\ [][NextRecord]_vars

\* the parse on model outputs that supply or leave out description_style,
\* confidence and context, up to the first generation call
ModelStyles == {"absent", "technical", "None"}
ModelContexts ==
    {Ctx("absent", EmptyDict), Ctx("null", EmptyDict), Ctx("dict", EmptyDict),
     Ctx("dict", [k \in {"location"} |-> "treadmill"]),
     Ctx("dict", [k \in {"intensity", "route"} |-> IF k = "route" THEN "park" ELSE "tough"])}
ModelResponses ==
    {Response("object", [Object(sp, Num(30), c, Null) EXCEPT !.description_style = ds,
                                                               !.context = cx]) :
        sp \in {"Run", "Dance"}, c \in {Absent, Num(90)}, ds \in ModelStyles,
        cx \in ModelContexts}
ModelPrompts == {<<>>, <<NumTok(2), WordTok("minutes")>>}

NextModel ==
    \/ Invoke(ModelPrompts)
    \/ ParseResponse(ModelResponses)

SpecModel == Init /\ [][NextModel]_vars

\* the fallback parse of prompts with sport and context words and with distances
NextScan ==
    \/ Invoke(ScanPrompts)
    \/ ParseResponse(UnavailableResponses)

SpecScan == Init /\ [][NextScan]_vars

----------------------------------------------------------------------------
(* The web application (main.py): one agent object, a session store, two users *)

Users == {"A", "B"}

\* the token response of the exchange for user u's authorization code
UserTokens(u) ==
    [access_token |-> "at_" \o u, refresh_token |-> "rt_" \o u,
     token_expires_at |-> Num(21600)]

Session(u, tk) == [user |-> u, tokens |-> tk]

\* user_sessions[session_id] = {...}: a dict keeps the place of a key it already has
RECURSIVE StoreSession(_, _, _)
StoreSession(sessions, session, i) ==
    IF i > Len(sessions) THEN Append(sessions, session)
    ELSE IF sessions[i].user = session.user THEN [sessions EXCEPT ![i] = session]
    ELSE StoreSession(sessions, session, i + 1)

\* the one prompt of this specification
SessionPrompt == <<NumTok(2), WordTok("minutes")>>

\* strava_callback (main.py 336-386): authenticate_strava exchanges the code on the
\* one agent's client, then the session is stored; it runs whenever the event loop
\* is free, also while an invocation waits for a completion call
strava_callback(u) ==
    /\ \E ok \in BOOLEAN :
         LET response == IF ok THEN WholeResponse(UserTokens(u)) ELSE FailedResponse
             r == exchange_token(tokens, response)
         IN  /\ tokens' = r.tokens
             /\ last_call' = Call("exchange_token", {}, EmptyDict, tokens, now,
                                   TokenOutcome(r))
             /\ user_sessions' = IF r.exc = ""
                                 THEN StoreSession(user_sessions, Session(u, r.tokens), 1)
                                 ELSE user_sessions
    /\ UNCHANGED <<workflowVars, now, requester, kb_call>>

\* the prompt handler (main.py 388-420) for a request sent by user u: the tokens of
\* the first session are installed, then create_activity_from_prompt runs up to the
\* await of the parse completion call
PromptRequest(u) ==
    /\ pc = "idle"
    /\ \E i \in 1..Len(user_sessions) : user_sessions[i].user = u
    /\ LET session_data == user_sessions[1]
       IN  tokens' = set_tokens(session_data.tokens.access_token,
                                session_data.tokens.refresh_token,
                                session_data.tokens.token_expires_at)
    /\ requester' = u
    /\ prompt' = SessionPrompt
    /\ \E m \in SearchOutcomes : matches' = m
    /\ pc' = "await_parse"
    /\ calls' = [calls EXCEPT !.parse = @ + 1]
    /\ UNCHANGED <<kbClient, resp, parse_result, via, fb_matches, store_ok, name, now, sent,
                   accepted, result, raised, last_call, user_sessions, kb_call>>

NextSessions ==
    \/ \E u \in Users : strava_callback(u)
    \/ \E u \in Users : PromptRequest(u)
    \/ ParseResponse(UnavailableResponses)
    \/ NameResponse
    \/ DescResponse

SpecSessions == Init /\ [][NextSessions]_vars

\* the times at which the front end's requests arrive: while the tokens of a fresh
\* session are valid, and when they are due for refresh
FrontEndClock == {0, 21600}

\* api_get_athlete (main.py 596-618) for a request sent by user u: the tokens of the
\* first session are installed, then get_athlete runs on the client, which refreshes
\* the token when it is due; the handler has no await
api_get_athlete(u) ==
    /\ user_sessions # <<>>
    /\ \E i \in 1..Len(user_sessions) : user_sessions[i].user = u
    /\ \E t \in FrontEndClock, ro \in ServiceOutcomes, ao \in ServiceOutcomes :
         LET session_data == user_sessions[1]
             installed == set_tokens(session_data.tokens.access_token,
                                     session_data.tokens.refresh_token,
                                     session_data.tokens.token_expires_at)
             out == get_athlete(installed, t, RefreshResponse(ro, t), ao)
         IN  /\ t >= now
             /\ ro = "fail" => NeedsRefresh(installed, t)
             /\ tokens' = out.tokens
             /\ now' = t
             /\ last_call' = Call("get_athlete", {}, EmptyDict, installed, t, out)
    /\ requester' = u
    /\ UNCHANGED <<workflowVars, user_sessions, kb_call>>

NextFrontEnd ==
    \/ \E u \in Users : strava_callback(u)
    \/ \E u \in Users : api_get_athlete(u)

SpecFrontEnd == Init /\ [][NextFrontEnd]_vars

----------------------------------------------------------------------------
(* Operations called on the ExerciseKnowledgeBase directly *)

\* sport_type arguments: with a catalog entry, without one, and None
KbSports == {"Run", "Ride", "Dance", "None"}

\* what the store's hybrid query answers
Rankings == {<<>>, <<1>>, <<2, 1>>}

\* the values a key of an input context has ("absent": the key is missing)
ContextValues(k) ==
    CASE k = "keywords" -> {"absent", "[tempo]"}
      [] k = "location" -> {"absent", "treadmill", "gym"}
      [] k = "equipment" -> {"absent", "my old shoes"}
      [] k = "muscle_groups" -> {"absent", "[arms]"}
      [] k = "intensity" -> {"absent", "", "tough"}
      [] OTHER -> {"absent"}
ContextKeys == {"keywords", "location", "equipment", "muscle_groups", "intensity"}

\* the dict with the keys a choice gives a value
DictOf(choice) == [k \in {x \in DOMAIN choice : choice[x] # "absent"} |-> choice[k]]

\* the contexts handed to enhance_activity_context: dicts, and the null of a model
\* output whose context is null
ContextInputs ==
    {Ctx("null", EmptyDict)}
    \cup {Ctx("dict", DictOf(choice)) :
            choice \in {c \in [ContextKeys -> UNION {ContextValues(k) : k \in ContextKeys}] :
                          \A k \in ContextKeys : c[k] \in ContextValues(k)}}

KbCalled(call) ==
    /\ kb_call' = call
    /\ UNCHANGED <<workflowVars, sessionVars, tokens, now, last_call>>

SearchExercises ==
    \E ranking \in Rankings, ok \in BOOLEAN :
        /\ ~ok => kbClient
        /\ KbCalled(KbCall("search_exercises", "", Ctx("absent", EmptyDict), ok, FALSE,
                           NoOnce, search_exercises(ranking, ok)))

GetExerciseSuggestions ==
    \E sport_type \in KbSports, ok \in BOOLEAN :
        /\ ~ok => kbClient
        /\ KbCalled(KbCall("get_exercise_suggestions", sport_type, Ctx("absent", EmptyDict),
                           ok, FALSE, NoOnce,
                           get_exercise_suggestions(sport_type, ok)))

EnhanceActivityContext ==
    \E sport_type \in KbSports, context \in ContextInputs, ok \in BOOLEAN :
        /\ ~ok => kbClient
        /\ KbCalled(KbCall("enhance_activity_context", sport_type, context, ok, FALSE,
                           NoOnce, enhance_activity_context(sport_type, context, ok)))

\* enhance_activity_context applied to the context its previous call returned, with
\* the same sport_type
EnhanceAgain ==
    /\ kb_call.op = "enhance_activity_context" /\ ~kb_call.again /\ ~kb_call.raised
    /\ \E ok \in BOOLEAN :
        /\ ~ok => kbClient
        /\ KbCalled(KbCall("enhance_activity_context", kb_call.sport_type, kb_call.out, ok,
                           TRUE, Once(kb_call.store_ok, kb_call.out),
                           enhance_activity_context(kb_call.sport_type, kb_call.out, ok)))

NextKnowledge ==
    \/ SearchExercises
    \/ GetExerciseSuggestions
    \/ EnhanceActivityContext
    \/ EnhanceAgain

SpecKnowledge == Init /\ [][NextKnowledge]_vars

----------------------------------------------------------------------------
(* Properties *)

Parsed == via # ""
Data == parse_result.parsed_data
ParseSucceeded == Parsed /\ parse_result.status = "success"
NoCallAfterParse ==
    /\ calls.name = 0 /\ calls.description = 0
    /\ calls.create = 0 /\ calls.api = 0 /\ sent = NoRecord
GateRejected == pc = "done" /\ result = Error(MsgLowConfidence)

\* the invocation went on to generation (and, once it is over, handed a record to the
\* activity-service client)
Proceeded ==
    \/ pc \in {"await_name", "await_desc"} /\ calls.name + calls.description >= 1
    \/ pc = "done" /\ calls.description = 1 /\ calls.create = 1 /\ sent # NoRecord

\* C1: an invocation whose parse result has a confidence below 0.3 returns
\* status=error, submits no create request and makes no generation call.
C1_LowConfidenceNeverCreates ==
    (ParseSucceeded /\ Data.confidence.t \in {"num", "bool"}
        /\ Hundredths(Data.confidence) < 30)
    => (pc = "done" /\ result.status = "error" /\ NoCallAfterParse /\ ~accepted)

C1_Witness ==
    /\ ParseSucceeded /\ Data.confidence = Num(29) /\ Data.sport_type = "Run"
    /\ GateRejected /\ NoCallAfterParse

\* C2: the gate rejects only below 0.3: a successful parse with confidence exactly 0.3
\* is not turned down by the gate and goes on to generation and record submission, so
\* every successful fallback parse (confidence 0.3) goes on; 0.29 is rejected.
C2_GateBoundary ==
    /\ (ParseSucceeded /\ Data.confidence = Num(30)) => (~GateRejected /\ Proceeded)
    /\ (ParseSucceeded /\ via = "fallback") => (Data.confidence = Num(30) /\ Proceeded)
    /\ (ParseSucceeded /\ Data.confidence = Num(29)) => GateRejected

\* C3: every successful parse result has duration_minutes > 0.
C3_SuccessHasPositiveDuration ==
    ParseSucceeded => Positive(Data.duration_minutes)

\* C4: every successful parse result, and every record submitted, has a sport_type
\* among the ten fixed values.
C4_SportTypeInEnum ==
    /\ ParseSucceeded => Data.sport_type \in SportTypes
    /\ sent # NoRecord => sent.sport_type \in SportTypes

\* the duration tokens of the claim: <N> minute(s)/min and <N> hour(s)/hr
MinuteWords == {"minute", "minutes", "min"}
HourWords == {"hour", "hours", "hr"}
IsDurationToken(p, i) ==
    /\ i \in 1..(Len(p) - 1)
    /\ p[i].k = "num" /\ p[i + 1].k = "word"
    /\ p[i + 1].w \in MinuteWords \cup HourWords
TokenMinutes(p, i) == IF p[i + 1].w \in HourWords THEN p[i].n * 60 ELSE p[i].n
FirstDurationToken(p, i) ==
    IsDurationToken(p, i) /\ \A j \in 1..(i - 1) : ~IsDurationToken(p, j)
ModelUnavailable == Parsed /\ resp.kind \in UnavailableKinds
ParsedAs(minutes) ==
    /\ parse_result.status = "success"
    /\ Data.duration_minutes = Num(minutes)
    /\ Data.confidence = Num(30)

\* C5 as stated: with no model available, for every duration token <N> unit of the
\* prompt the parse succeeds with duration_minutes = N (N x 60 for hours) and
\* confidence 0.3.
C5_EveryDurationToken ==
    ModelUnavailable =>
        \A i \in 1..Len(prompt) : IsDurationToken(prompt, i) => ParsedAs(TokenMinutes(prompt, i))

\* C5 amended: with no model available, the parse of a prompt with a duration token
\* succeeds with the duration of the first (leftmost) such token, N minutes or
\* N x 60 for hours, and confidence exactly 0.3.
C5_FirstDurationToken ==
    ModelUnavailable =>
        \A i \in 1..Len(prompt) :
            FirstDurationToken(prompt, i) => ParsedAs(TokenMinutes(prompt, i))

C5_Witness ==
    /\ ModelUnavailable /\ Len(prompt) = 4
    /\ FirstDurationToken(prompt, 1) /\ IsDurationToken(prompt, 3)
    /\ prompt[2].w = "hr" /\ prompt[1].n = 2 /\ prompt[3].n = 0
    /\ ParsedAs(120)

\* C6: for a prompt with no duration token, when the model parse does not succeed the
\* parse returns status=error with the missing-duration message, and the workflow
\* returns that error without a generation call or a create request.
C6_NoDurationIsAnError ==
    (Parsed /\ via # "model" /\ \A i \in 1..Len(prompt) : ~IsDurationToken(prompt, i))
    => /\ parse_result.status = "error" /\ parse_result.message = MsgNoDuration
       /\ pc = "done" /\ result = Error(MsgNoDuration) /\ NoCallAfterParse

\* C7: when the parse completion call fails at transport level (non-2xx, exception,
\* malformed envelope) the parse returns what _fallback_parse_prompt gives for the prompt.
C7_TransportFailureFallsBack ==
    (Parsed /\ resp.kind \in UnavailableKinds \cup EnvelopeKinds)
    => parse_result = _fallback_parse_prompt(prompt, fb_matches, store_ok)

\* a JSON number
IsJsonNumber(x) == x.t = "num"

\* C8: when the completion content is not valid JSON, or its duration_minutes is
\* missing, non-numeric or <= 0, the parse returns the fallback parser's result; the
\* parse never raises.
C8_InvalidContentFallsBack ==
    /\ ~raised
    /\ (Parsed /\ (\/ resp.kind \in ContentKinds
                   \/ /\ resp.kind = "object"
                      /\ \/ ~IsJsonNumber(resp.obj.duration_minutes)
                         \/ resp.obj.duration_minutes.v <= 0))
       => parse_result = _fallback_parse_prompt(prompt, fb_matches, store_ok)

\* C9: create_activity_from_prompt ends without raising, with a result whose status is
\* 'success' or 'error', and every error result carries a message; no invocation is
\* left unable to continue.
C9_AlwaysReturnsTypedResult ==
    /\ ~raised
    /\ pc = "done" => /\ result.status \in {"success", "error"}
                      /\ result.status = "error" => result.has_message
    /\ pc \in {"await_parse", "await_name", "await_desc"} => ENABLED Next

C9_Witness ==
    /\ pc = "done" /\ ParseSucceeded /\ Data.sport_type = "absent"
    /\ result = Error("KeyError: 'sport_type'")

\* C10: a success result exists only when the activity service accepted this
\* invocation's create request, and carries the created activity and parsing_info
\* (prompt, parsed data, confidence); an error result carries neither.
C10_SuccessMeansAccepted ==
    pc = "done" =>
      /\ result.status = "success" =>
           /\ accepted /\ calls.api = 1
           /\ result.has_activity /\ result.activity = sent
           /\ result.has_parsing_info
           /\ result.parsing_info = [original_prompt |-> prompt, parsed_data |-> Data,
                                     confidence |-> Data.confidence]
      /\ result.status = "error" => (~result.has_activity /\ ~result.has_parsing_info)

C10_Witness ==
    /\ pc = "done" /\ result.status = "success" /\ accepted
    /\ result.parsing_info.original_prompt = prompt /\ Len(prompt) = 2
\* create_quick_activity_with_ai reached the description generation
QuickEntered == calls.description >= 1

\* C11: whatever the outcome of the name and description completion calls, an
\* invocation whose parse succeeded and passed the gate, and so entered
\* create_quick_activity_with_ai, hands a record with a name and a description to the
\* activity-service client.
C11_GenerationNeverAborts ==
    (pc = "done" /\ ParseSucceeded /\ QuickEntered)
    => /\ calls.create = 1 /\ sent # NoRecord
       /\ sent.name # NoText /\ sent.description # NoText

\* a string substituted for a failed generation call
IsSubstitute(text) == text.kind \notin {"none", "given", "ai", "raise"}

\* the string embeds the sport_type (as given or lower-cased) and the duration
Embeds(text, sport_type, duration_minutes) ==
    /\ text.sport \in {sport_type, Lower(sport_type)}
    /\ text.minutes = Num(duration_minutes)

\* C12: the string substituted for a failed name or description call embeds both the
\* sport_type and the duration of the activity, for each of the ten sport types.
C12_SubstituteEmbedsSportAndDuration ==
    /\ (pc \in {"await_desc", "done"} /\ IsSubstitute(name))
          => Embeds(name, Data.sport_type, IntOf(Data.duration_minutes))
    /\ (sent # NoRecord /\ IsSubstitute(sent.description))
          => Embeds(sent.description, Data.sport_type, IntOf(Data.duration_minutes))
\* duration_minutes x 60, for a duration with tenths
Seconds(d) == d.v * 60 + d.f * 6

\* C13: every record submitted has elapsed_time = duration_minutes x 60 and, when the
\* parsed distance_km is present (not null), distance = distance_km x 1000; distance
\* is omitted only when distance_km is absent.
C13_RecordArithmetic ==
    sent # NoRecord =>
      /\ sent.elapsed_time = Seconds(Data.duration_minutes)
      /\ Data.distance_km.t = "num" => sent.distance = Num(Data.distance_km.v)
      /\ sent.distance = Absent => Data.distance_km.t \in {"null", "absent"}
\* the operations that send a request to the activity API
ApiOps == {"get_athlete", "create_activity", "update_activity", "get_activity",
           "get_activities"}

\* the last operation was an API operation whose argument passed the client-side
\* validation, so that _make_authenticated_request ran
ReachedRequest ==
    /\ last_call.op \in ApiOps
    /\ last_call.op = "create_activity" => required_fields \subseteq last_call.keys
    /\ last_call.op = "update_activity" => last_call.keys \cap allowed_fields # {}

\* C14: create_activity with a record lacking a required field fails with the
\* missing-required-field error, sends no API request, refreshes no token and leaves
\* the token state as it was, whatever the token state.
C14_MissingFieldFailsBeforeNetwork ==
    (last_call.op = "create_activity" /\ ~(required_fields \subseteq last_call.keys))
    => /\ last_call.out.exc = "Missing required field"
       /\ last_call.out.requests = 0 /\ last_call.out.refreshes = 0
       /\ last_call.out.request = NoRequest
       /\ tokens = last_call.before

\* a record without elapsed_time, handed to a client whose token is due for refresh
C14_Witness ==
    /\ last_call.op = "create_activity" /\ "elapsed_time" \notin last_call.keys
    /\ last_call.before.access_token = "at0" /\ NeedsRefresh(last_call.before, last_call.t)
    /\ last_call.out.exc = "Missing required field"

\* C15: every request sent to the activity API carries the access token the client
\* holds when it is sent (the refreshed one after a refresh); with no access token
\* set, every API operation with a valid argument fails with the authenticate-first
\* error and sends nothing.
C15_BearerIsCurrentToken ==
    /\ last_call.out.requests = 1
         => /\ last_call.out.request.bearer = tokens.access_token
            /\ last_call.out.request.bearer # "None"
    /\ (ReachedRequest /\ last_call.before.access_token = "None")
         => /\ last_call.out.exc = MsgAuthenticateFirst
            /\ last_call.out.requests = 0 /\ last_call.out.refreshes = 0

\* a request sent right after a refresh carries the new token
C15_Witness ==
    /\ last_call.op = "get_athlete" /\ last_call.out.refreshes = 1
    /\ last_call.out.requests = 1
    /\ last_call.before.access_token = "at0" /\ last_call.out.request.bearer = "at1"

\* C16: an authenticated API call refreshes the token if and only if
\* current_time + 300 >= expires_at, for every installed expires_at; a failed refresh
\* sends no API request.
C16_RefreshIffNearExpiry ==
    (ReachedRequest /\ last_call.before.access_token # "None"
        /\ last_call.before.refresh_token # "None"
        /\ last_call.before.token_expires_at.t = "num")
    => /\ (last_call.out.refreshes = 1)
            <=> (last_call.t + 300 >= last_call.before.token_expires_at.v)
       /\ (last_call.out.refreshes = 1 /\ last_call.out.exc # ""
              /\ last_call.out.exc # "Strava API request failed")
            => last_call.out.requests = 0

\* C17: update_activity sends only keys of the allow-list, each with the caller's
\* value, and all of the caller's allowed keys; with no allowed key it fails and
\* sends nothing.
C17_UpdateSendsAllowedOnly ==
    last_call.op = "update_activity" =>
      /\ last_call.out.requests = 1
           => /\ last_call.out.request.keys = last_call.keys \cap allowed_fields
              /\ DOMAIN last_call.out.request.values = last_call.out.request.keys
              /\ \A k \in last_call.out.request.keys :
                    last_call.out.request.values[k] = last_call.values[k]
      /\ last_call.keys \cap allowed_fields = {}
           => /\ last_call.out.exc = "No valid fields provided for update"
              /\ last_call.out.requests = 0 /\ last_call.out.refreshes = 0

\* an update with an allowed and a disallowed key was sent
C17_Witness ==
    /\ last_call.op = "update_activity" /\ last_call.keys = {"name", "distance"}
    /\ last_call.values["name"] = "b"
    /\ last_call.out.requests = 1 /\ last_call.out.request.keys = {"name"}

\* the triples that come whole from one set_tokens call or one token response
WholeTriples ==
    {NoTokens}
    \cup {set_tokens("at0", "rt0", e) : e \in ClientExpiries}
    \cup {RefreshedTokens(t) : t \in Clock}
    \cup {ExchangedTokens(t) : t \in Clock}

\* C19: the token triple the client holds always comes whole from one set_tokens call
\* or one token response, never a mix of two sources.
C19_TokenTripleIsWhole == tokens \in WholeTriples
\* both users are in the session store
BothAuthenticated == {user_sessions[i].user : i \in 1..Len(user_sessions)} = Users

\* C18: with two users authenticated, the record of an invocation made for one user
\* is submitted with that user's access token, under every interleaving of prompt
\* requests and OAuth callbacks.
C18_RecordUsesRequestersToken ==
    (BothAuthenticated /\ pc = "done" /\ last_call.op = "create_activity"
        /\ last_call.out.requests = 1)
    => last_call.out.request.bearer = "at_" \o requester
\* the top match that made the parse call enhance_activity_context
TopMatch == IF via = "fallback" THEN fb_matches ELSE matches

\* the catalog entries of the parsed sport_type
EntriesOf(sport_type) == SelectSeq(Catalog, LAMBDA e : e.sport_type = sport_type)

\* enhance_activity_context ran with the store available and a suggestion
Enhanced ==
    /\ ParseSucceeded /\ via \in {"fallback", "model"} /\ TopMatch # 0
    /\ kbClient /\ store_ok
    /\ EntriesOf(Data.sport_type) # <<>>

\* C20: with the store available and a suggestion for sport_type, the enhanced
\* context has the muscle groups of the top suggestion's catalog entry and, the input
\* context having no intensity, that entry's intensity_level.
C20_ContextHasMuscleGroupsAndIntensity ==
    Enhanced =>
      /\ Get(Data.context.d, "muscle_groups") = EntriesOf(Data.sport_type)[1].muscle_groups
      /\ Get(Data.context.d, "intensity") = EntriesOf(Data.sport_type)[1].intensity_level
\* muscle_groups and intensity of a context ("absent": no such key, or no dict)
KnowledgeFields(c) ==
    IF c.t = "dict"
    THEN <<GetOr(c.d, "muscle_groups", "absent"), GetOr(c.d, "intensity", "absent")>>
    ELSE <<"absent", "absent">>

EnhanceCalled == kb_call.op = "enhance_activity_context"

\* C21: enhance_activity_context applied to its own result, with the same sport_type,
\* leaves muscle_groups and intensity as the first application set them (the store
\* answering the second call only if it answered the first).
C21_EnhanceIdempotent ==
    (EnhanceCalled /\ kb_call.again /\ (kb_call.store_ok => kb_call.once.store_ok))
    => KnowledgeFields(kb_call.out) = KnowledgeFields(kb_call.once.out)

\* a second application that ran the merge again on a context the first one changed
C21_Witness ==
    /\ EnhanceCalled /\ kb_call.again /\ kbClient /\ kb_call.store_ok
    /\ kb_call.once.store_ok /\ kb_call.sport_type = "Run"
    /\ KnowledgeFields(kb_call.out) = <<"[]", "tough">>
    /\ Get(kb_call.out.d, "equipment") = "treadmill"

\* C22: no operation of the knowledge base raises; without a client or when the store
\* call fails, search_exercises and get_exercise_suggestions return [] and
\* enhance_activity_context returns its input, as it does when the sport_type has no
\* suggestion.
C22_StoreFailureNeverPropagates ==
    kb_call.op # "" =>
      /\ ~kb_call.raised
      /\ (~kbClient \/ ~kb_call.store_ok)
           => /\ kb_call.found = <<>>
              /\ EnhanceCalled => kb_call.out = kb_call.context
      /\ (EnhanceCalled
             /\ \A i \in 1..Len(Catalog) : Catalog[i].sport_type # kb_call.sport_type)
           => kb_call.out = kb_call.context

\* the store call of an enhancement failed and the input came back
C22_Witness ==
    /\ EnhanceCalled /\ kbClient /\ ~kb_call.store_ok /\ kb_call.sport_type = "Run"
    /\ kb_call.context.t = "dict" /\ Get(kb_call.context.d, "location") = "gym"
    /\ kb_call.out = kb_call.context /\ ~kb_call.raised

\* C28: enhance_activity_context removes no key of its input and changes no value the
\* input already has (equipment and muscle_groups included).
C28_EnhanceKeepsInputValues ==
    (EnhanceCalled /\ kb_call.context.t = "dict")
    => /\ kb_call.out.t = "dict"
       /\ \A k \in DOMAIN kb_call.context.d :
            /\ k \in DOMAIN kb_call.out.d
            /\ kb_call.context.d[k] # "" => kb_call.out.d[k] = kb_call.context.d[k]
\* C23: every successful parse result, on the model path and on the fallback path,
\* has a confidence that is a number between 0 and 1.
C23_ConfidenceInUnitInterval ==
    ParseSucceeded
    => /\ IsJsonNumber(Data.confidence)
       /\ Data.confidence.v >= 0 /\ Data.confidence.v <= 100
\* what the claim gives for a key: the model's value, or the default when absent
StyleOrDefault == IF resp.obj.description_style = "absent" THEN "casual"
                  ELSE resp.obj.description_style
ConfidenceOrDefault == IF resp.obj.confidence = Absent THEN Num(50) ELSE resp.obj.confidence
ContextOrDefault == IF resp.obj.context.t = "absent" THEN Ctx("dict", EmptyDict)
                    ELSE resp.obj.context

\* C24 as stated: on the model path a successful parse result has description_style,
\* confidence and context equal to the model's value when the model's JSON supplies
\* it, and to 'casual', 0.5 and {} when it leaves it absent.
C24_DefaultsOrModelValue ==
    (ParseSucceeded /\ via = "model")
    => /\ Data.description_style = StyleOrDefault
       /\ Data.confidence = ConfidenceOrDefault
       /\ Data.context = ContextOrDefault

\* the keys the knowledge lookup's enrichment sets
EnrichedKeys == {"exercise_keywords", "equipment", "muscle_groups", "intensity"}

\* C24 amended: description_style and confidence are the model's value or the
\* default; context is the model's value or {} when the prompt has no knowledge
\* match, and with a match it is that value after the knowledge lookup's enrichment:
\* all its keys are kept and it differs at most in exercise_keywords, equipment,
\* muscle_groups and intensity.
C24_DefaultsThenEnrichment ==
    (ParseSucceeded /\ via = "model")
    => /\ Data.description_style = StyleOrDefault
       /\ Data.confidence = ConfidenceOrDefault
       /\ matches = 0 => Data.context = ContextOrDefault
       /\ (matches # 0 /\ ContextOrDefault.t # "dict") => Data.context = ContextOrDefault
       /\ (matches # 0 /\ ContextOrDefault.t = "dict")
            => /\ Data.context.t = "dict"
               /\ DOMAIN ContextOrDefault.d \subseteq DOMAIN Data.context.d
               /\ DOMAIN Data.context.d \subseteq DOMAIN ContextOrDefault.d \cup EnrichedKeys
               /\ \A k \in DOMAIN ContextOrDefault.d \ EnrichedKeys :
                     Data.context.d[k] = ContextOrDefault.d[k]

\* a model output with a style and a context but no confidence, enriched
C24_Witness ==
    /\ ParseSucceeded /\ via = "model" /\ matches # 0
    /\ resp.obj.description_style = "technical" /\ Data.description_style = "technical"
    /\ resp.obj.confidence = Absent /\ Data.confidence = Num(50)
    /\ Get(resp.obj.context.d, "route") = "park" /\ Get(Data.context.d, "route") = "park"
    /\ "muscle_groups" \in DOMAIN Data.context.d
FallbackParsed == ParseSucceeded /\ via = "fallback"

\* the categories of the keyword scan in the order of the claim, with their keywords
CategoryOrder == <<"Ride", "Swim", "Hike", "Walk", "Yoga", "WeightTraining", "Rowing",
                   "CrossCountrySkiing", "Elliptical">>
CategoryKeywords(c) ==
    CASE c = "Ride" -> {"bike", "cycling", "cycle", "rode"}
      [] c = "Swim" -> {"swim", "pool"}
      [] c = "Hike" -> {"hike", "trail"}
      [] c = "Walk" -> {"walk"}
      [] c = "Yoga" -> {"yoga", "stretching"}
      [] c = "WeightTraining" -> {"weight", "lifting", "gym", "strength"}
      [] c = "Rowing" -> {"rowing", "row"}
      [] c = "CrossCountrySkiing" -> {"ski"}
      [] c = "Elliptical" -> {"elliptical"}
      [] OTHER -> {}

\* the places in CategoryOrder of the categories with a keyword in the prompt
CategoriesIn(p) ==
    {i \in 1..Len(CategoryOrder) : \E kw \in CategoryKeywords(CategoryOrder[i]) : Occurs(kw, p)}

\* C25: the fallback parser's sport_type is the top knowledge match's sport_type when
\* there is a match; otherwise the earliest category of the order with a keyword in
\* the prompt, and Run when there is none.
C25_FirstCategoryWins ==
    FallbackParsed =>
      Data.sport_type =
        IF fb_matches # 0 THEN Catalog[fb_matches].sport_type
        ELSE IF CategoriesIn(prompt) = {} THEN "Run"
        ELSE CategoryOrder[CHOOSE i \in CategoriesIn(prompt) :
                             \A j \in CategoriesIn(prompt) : i <= j]

\* "hike" written before "bike": Ride, the earlier category, wins
C25_Witness ==
    /\ FallbackParsed /\ fb_matches = 0 /\ Len(prompt) = 4
    /\ prompt[3].w = "hike" /\ prompt[4].w = "bike"
    /\ Data.sport_type = "Ride"

\* the value the claim's keyword scan gives a context key ("absent": no key)
ClaimedTimeOfDay(p) ==
    IF Occurs("morning", p) \/ Occurs("am", p) THEN "morning"
    ELSE IF Occurs("evening", p) \/ Occurs("night", p) \/ Occurs("pm", p) THEN "evening"
    ELSE IF Occurs("afternoon", p) THEN "afternoon"
    ELSE "absent"
ClaimedLocation(p) ==
    IF Occurs("park", p) \/ Occurs("outdoor", p) \/ Occurs("outside", p) THEN "outdoor"
    ELSE IF Occurs("gym", p) \/ Occurs("indoor", p) THEN "gym"
    ELSE "absent"
ClaimedFeeling(p) ==
    IF \E kw \in {"great", "amazing", "awesome", "fantastic"} : Occurs(kw, p) THEN "great"
    ELSE IF \E kw \in {"tough", "hard", "difficult", "challenging"} : Occurs(kw, p)
    THEN "challenging"
    ELSE "absent"

\* C26: with no knowledge match, the fallback parser's context has time_of_day,
\* location and feeling as the keyword scan of the claim gives them, a key being
\* absent when none of its keywords occurs in the prompt.
C26_ContextKeywordScan ==
    (FallbackParsed /\ fb_matches = 0)
    => /\ Data.context.t = "dict"
       /\ GetOr(Data.context.d, "time_of_day", "absent") = ClaimedTimeOfDay(prompt)
       /\ GetOr(Data.context.d, "location", "absent") = ClaimedLocation(prompt)
       /\ GetOr(Data.context.d, "feeling", "absent") = ClaimedFeeling(prompt)

\* the distance tokens of the claim: <number> km, <number> k, <number> mile(s)
KmWords == {"km", "k"}
MileWords == {"mile", "miles"}
IsDistanceToken(p, i) ==
    /\ i \in 1..(Len(p) - 1)
    /\ p[i].k = "num" /\ p[i + 1].k = "word"
    /\ p[i + 1].w \in KmWords \cup MileWords
FirstDistanceToken(p, i) ==
    IsDistanceToken(p, i) /\ \A j \in 1..(i - 1) : ~IsDistanceToken(p, j)

\* C27: the fallback parser's distance_km is null for a prompt without a distance
\* token; otherwise it is the number of the first distance token, times 1.609 when
\* its unit is mile and unchanged for km and k.
C27_FirstDistanceToken ==
    FallbackParsed =>
      /\ (\A i \in 1..Len(prompt) : ~IsDistanceToken(prompt, i)) => Data.distance_km = Null
      /\ \A i \in 1..Len(prompt) :
           FirstDistanceToken(prompt, i)
           => Data.distance_km = Num(IF prompt[i + 1].w \in MileWords
                                     THEN prompt[i].n * 1609 ELSE prompt[i].n * 1000)

\* "1 mile 2 km 2 minutes": 1.609 km
C27_Witness ==
    /\ FallbackParsed /\ Len(prompt) = 6
    /\ prompt[1].n = 1 /\ prompt[2].w = "mile" /\ prompt[3].n = 2 /\ prompt[4].w = "km"
    /\ Data.distance_km = Num(1609)
\* C29: one invocation makes at most one parse, one name and one description
\* completion call and at most one create request, exactly one create request when
\* it returns success; a parse completion call that raised (timeout) leads to the
\* fallback parse, without another call.
C29_NoRetry ==
    /\ calls.parse <= 1 /\ calls.name <= 1 /\ calls.description <= 1
    /\ calls.create <= 1 /\ calls.api <= 1
    /\ (pc = "done" /\ result.status = "success") => (calls.create = 1 /\ calls.api = 1)
    /\ (Parsed /\ resp.kind = "exception")
         => /\ via = "fallback" /\ calls.parse = 1
            /\ parse_result = _fallback_parse_prompt(prompt, fb_matches, store_ok)

\* the parse call timed out, the activity service refused the one create request
C29_Witness ==
    /\ pc = "done" /\ resp.kind = "exception" /\ via = "fallback"
    /\ result.status = "error" /\ result.message = "Strava API request failed"
    /\ calls = [parse |-> 1, name |-> 1, description |-> 1, create |-> 1, refresh |-> 0,
                api |-> 1]

\* the last front-end request refreshed the token and the refresh succeeded
RefreshSucceeded ==
    /\ last_call.op = "get_athlete" /\ last_call.out.refreshes = 1
    /\ tokens = RefreshedTokens(last_call.t)

\* C30: after a refresh that a front-end request triggered has succeeded, the session
\* store entry the front end installs from holds the client's refreshed token triple.
C30_StoreFollowsRefresh ==
    RefreshSucceeded
    => /\ user_sessions[1].tokens.access_token = tokens.access_token
       /\ user_sessions[1].tokens.refresh_token = tokens.refresh_token
       /\ user_sessions[1].tokens.token_expires_at = tokens.token_expires_at
====
